---- MODULE Spec2Model ----
(***************************************************************************)
(* The data access layer of db.py: three SQLite tables (users, startups,   *)
(* startup_members) and the functions that read and write them.            *)
(*                                                                         *)
(* Every function opens its own connection, so callers are modelled as     *)
(* processes.  A statement of SQLite is atomic, and a write statement      *)
(* together with the commit that follows it is atomic too (SQLite admits   *)
(* one writer at a time and readers see committed data only); a function   *)
(* that runs several statements is several steps, and other processes may  *)
(* run between them.  Every statement may fail (no connection, a locked    *)
(* file, a missing table, a broken constraint): sqlite3 then raises, and   *)
(* the function's except clause, when it has one, returns its default.     *)
(*                                                                         *)
(* datetime.now() is read as a logical clock that gives a later instant    *)
(* at every reading; commits counts the write transactions committed (the  *)
(* engine's data version), which is what the environments bound.           *)
(***************************************************************************)
EXTENDS Integers, Sequences, FiniteSets, TLC

\* ------------------------------------------------------------------ bounds
\* write transactions committed in a run of Spec, where every function is called
MaxWrites == 2
\* write transactions committed in a run of SpecUsers
MaxUserWrites == 4
\* the same in a run of SpecStartups, SpecListing, SpecMembers, SpecRoster,
\* SpecStats, SpecOwner and SpecStatus;
\* the readings of the clock have the same bound (a call that fails after it
\* has read the clock uses up a reading)
MaxStartupWrites == 3
MaxListingWrites == 3
MaxMemberWrites == 4
MaxRosterWrites == 3
MaxStatsWrites == 3
MaxOwnerWrites == 4
MaxStatusWrites == 3
\* page and per_page arguments tried
MaxPage == 3
MaxPerPage == 2

\* the callers: two suffice for every interleaving the functions have
Procs == {1, 2}
UserIds == {1, 2}
StartupIds == {1, 2}
Names == {"a", "b"}
Values == {"v"}

\* --------------------------------------------------------------- the schema
\* Optional[...] of Python and a nullable column: <<>> is None / NULL, <<x>> is x
None == <<>>
Some(x) == <<x>>

UserColumns ==
  {"id", "user_id", "username", "first_name", "last_name", "phone", "gender",
   "birth_date", "bio", "joined_at"}
\* the columns the callers hand to update_user_field
ProfileColumns ==
  {"username", "first_name", "last_name", "phone", "gender", "birth_date", "bio"}
\* the columns of users that save_user does not name: their DEFAULT applies
DefaultedColumns == {"last_name", "phone", "gender", "birth_date", "bio"}

StartupStatuses == {"pending", "active", "completed", "rejected"}

VARIABLES
  schema,           \* TRUE once init_db has created the tables
  users,            \* the rows of table users
  startups,         \* the rows of table startups
  startup_members,  \* the rows of table startup_members
  seq,              \* sqlite_sequence: the last AUTOINCREMENT id of each table
  commits,          \* the data version: write transactions committed so far
  now,              \* the next value of datetime.now()
  pc,               \* per process: where it is in the function it runs
  loc,              \* per process: the function's arguments and local variables
  ret,              \* per process: what the last finished call gave its caller
  lastSave,         \* history: per user_id, the names of the last save_user served
  applied           \* history: the <<id, status>> with status 'active' or 'completed'
                    \* that an update_startup_status served has written to a stored row

vars == <<schema, users, startups, startup_members, seq, commits, now, pc, loc, ret, lastSave,
         applied>>
db == <<schema, users, startups, startup_members, seq, commits>>

NoLoc == [op |-> "none"]
\* how a call ended: "ok" (every statement was served), "default" (a statement
\* failed, the except clause returned the default), "raised" (a statement
\* failed and the exception reached the caller)
NoRet == [op |-> "none", args |-> <<>>, val |-> None, how |-> "ok"]

Init ==
  /\ schema = FALSE
  /\ users = {}
  /\ startups = {}
  /\ startup_members = {}
  /\ seq = [users |-> 0, startups |-> 0, startup_members |-> 0]
  /\ commits = 0
  /\ now = 1
  /\ pc = [p \in Procs |-> "idle"]
  /\ loc = [p \in Procs |-> NoLoc]
  /\ ret = [p \in Procs |-> NoRet]
  /\ lastSave = [u \in UserIds |-> None]
  /\ applied = {}

\* ------------------------------------------------------------ call and return
Ends(p, op, args, val, how) ==
  /\ pc' = [pc EXCEPT ![p] = "done"]
  /\ loc' = [loc EXCEPT ![p] = NoLoc]
  /\ ret' = [ret EXCEPT ![p] = [op |-> op, args |-> args, val |-> val, how |-> how]]

\* every statement was served and the function returns val
Returns(p, op, args, val) == Ends(p, op, args, val, "ok")

\* the function has committed a write transaction and returns val
Commits(p, op, args, val) ==
  /\ commits' = commits + 1
  /\ Ends(p, op, args, val, "ok")

\* a statement failed: the except clause logs and returns the default
Fails(p, op, args, default) == Ends(p, op, args, default, "default")

\* a statement failed and the function has no except clause
Raises(p, op, args) == Ends(p, op, args, None, "raised")

\* the function goes on to its next statement
Goes(p, label, locals) ==
  /\ pc' = [pc EXCEPT ![p] = label]
  /\ loc' = [loc EXCEPT ![p] = locals]
  /\ ret' = ret

\* the caller takes the result and is free to call again
Return(p) ==
  /\ pc[p] = "done"
  /\ pc' = [pc EXCEPT ![p] = "idle"]
  /\ ret' = [ret EXCEPT ![p] = NoRet]
  /\ UNCHANGED <<db, now, loc, lastSave, applied>>

\* ------------------------------------------------------------------ init_db
init_db(p) ==
  /\ pc[p] = "idle"
  /\ \/ /\ schema' = TRUE
        /\ Returns(p, "init_db", <<>>, None)
     \/ /\ schema' = schema
        /\ Raises(p, "init_db", <<>>)
  /\ UNCHANGED <<users, startups, startup_members, seq, commits, now, lastSave, applied>>

\* ------------------------------------------------------------------- users
\* SELECT * FROM users WHERE user_id = ?
SelectUser(user_id) == {r \in users : r.user_id = user_id}

\* cursor.fetchone() of a result set: a row of it, or None
FetchOne(rows) == IF rows = {} THEN None ELSE Some(CHOOSE r \in rows : \A q \in rows : r.id <= q.id)

get_user(p, user_id) ==
  /\ pc[p] = "idle"
  /\ \/ /\ schema
        /\ Returns(p, "get_user", <<user_id>>, FetchOne(SelectUser(user_id)))
     \/ Fails(p, "get_user", <<user_id>>, None)
  /\ UNCHANGED <<db, now, lastSave, applied>>

\* the row INSERT OR REPLACE INTO users (user_id, username, first_name, joined_at)
\* writes: the columns it does not name take their DEFAULT ''
NewUserRow(id, user_id, username, first_name, joined_at) ==
  [id |-> id, user_id |-> user_id, username |-> username, first_name |-> first_name,
   last_name |-> "", phone |-> "", gender |-> "", birth_date |-> "", bio |-> "",
   joined_at |-> joined_at]

\* a save that keeps the stored row when the user_id is taken (INSERT OR IGNORE)
InsertOrIgnore(rows, new) ==
  IF \E r \in rows : r.user_id = new.user_id THEN rows ELSE rows \cup {new}

\* a save that merges: only username, first_name and joined_at of a stored row change
MergeInto(rows, new) ==
  IF \E r \in rows : r.user_id = new.user_id
    THEN {IF r.user_id = new.user_id
            THEN [r EXCEPT !.username = new.username, !.first_name = new.first_name,
                           !.joined_at = new.joined_at]
            ELSE r : r \in rows}
    ELSE rows \cup {new}

\* a save that empties the table before its insert
ReplaceAll(rows, new) == {new}

\* OR REPLACE: the rows that break UNIQUE(user_id) are deleted before the insert
ReplaceInto(rows, new) == {r \in rows : r.user_id # new.user_id} \cup {new}

save_user(p, user_id, username, first_name) ==
  /\ pc[p] = "idle"
  /\ \/ /\ schema
        /\ users' = ReplaceInto(users,
                      NewUserRow(seq.users + 1, user_id, username, first_name, now))
        /\ seq' = [seq EXCEPT !.users = seq.users + 1]
        /\ now' = now + 1
        /\ lastSave' = [lastSave EXCEPT ![user_id] =
                          Some([username |-> username, first_name |-> first_name])]
        /\ Commits(p, "save_user", <<user_id, username, first_name>>, None)
     \/ /\ UNCHANGED <<users, seq, commits, now, lastSave>>
        /\ Fails(p, "save_user", <<user_id, username, first_name>>, None)
  /\ UNCHANGED <<schema, startups, startup_members, applied>>

\* an UPDATE without its WHERE clause: the column changes in every row
SetUserFieldAll(rows, user_id, field, value) ==
  {[r EXCEPT ![field] = value] : r \in rows}

\* UPDATE users SET {field} = ? WHERE user_id = ?
SetUserField(rows, user_id, field, value) ==
  {IF r.user_id = user_id THEN [r EXCEPT ![field] = value] ELSE r : r \in rows}

update_user_field(p, user_id, field, value) ==
  /\ pc[p] = "idle"
  /\ \/ /\ schema
        /\ field \in UserColumns
        /\ users' = SetUserField(users, user_id, field, value)
        /\ lastSave' = IF field \in {"username", "first_name"} /\ user_id \in UserIds
                         THEN [lastSave EXCEPT ![user_id] = None]
                         ELSE lastSave
        /\ Commits(p, "update_user_field", <<user_id, field, value>>, None)
     \/ /\ UNCHANGED <<users, commits, lastSave>>
        /\ Fails(p, "update_user_field", <<user_id, field, value>>, None)
  /\ UNCHANGED <<schema, startups, startup_members, seq, now, applied>>

\* ---------------------------------------------------------------- startups
\* a startups table whose status defaults to 'active'
NewStartupRowActive(id, name, description, logo, group_link, owner_id, created_at) ==
  [id |-> id, name |-> name, description |-> description, logo |-> logo,
   group_link |-> group_link, owner_id |-> owner_id, status |-> "active",
   results |-> "", created_at |-> created_at, started_at |-> None, ended_at |-> None]

\* the row INSERT INTO startups (name, description, logo, group_link, owner_id,
\* created_at) writes: status, results, started_at and ended_at take their defaults
NewStartupRow(id, name, description, logo, group_link, owner_id, created_at) ==
  [id |-> id, name |-> name, description |-> description, logo |-> logo,
   group_link |-> group_link, owner_id |-> owner_id, status |-> "pending",
   results |-> "", created_at |-> created_at, started_at |-> None, ended_at |-> None]

\* create_startup up to the arguments of cursor.execute: the connection is
\* open and datetime.now() is read
create_startup(p, name, description, logo, group_link, owner_id) ==
  /\ pc[p] = "idle"
  /\ \/ /\ Goes(p, "insert",
                [op |-> "create_startup",
                 args |-> <<name, description, logo, group_link, owner_id>>,
                 created_at |-> now])
        /\ now' = now + 1
     \/ /\ Fails(p, "create_startup", <<name, description, logo, group_link, owner_id>>, None)
        /\ now' = now
  /\ UNCHANGED <<db, lastSave, applied>>

\* the INSERT, cursor.lastrowid and the commit of create_startup
create_startup_insert(p) ==
  /\ pc[p] = "insert"
  /\ loc[p].op = "create_startup"
  /\ \/ /\ schema
        /\ LET a == loc[p].args
               startup_id == seq.startups + 1
           IN /\ startups' = startups \cup
                    {NewStartupRow(startup_id, a[1], a[2], a[3], a[4], a[5], loc[p].created_at)}
              /\ seq' = [seq EXCEPT !.startups = startup_id]
              /\ Commits(p, "create_startup", a, Some(startup_id))
     \/ /\ UNCHANGED <<startups, seq, commits>>
        /\ Fails(p, "create_startup", loc[p].args, None)
  /\ UNCHANGED <<schema, users, startup_members, now, lastSave, applied>>

\* ORDER BY created_at without DESC: the oldest row first
RECURSIVE OrderByCreatedAtAsc(_)
OrderByCreatedAtAsc(rows) ==
  IF rows = {} THEN <<>>
  ELSE LET first == CHOOSE r \in rows : \A q \in rows :
                      \/ r.created_at < q.created_at
                      \/ q.created_at = r.created_at /\ r.id <= q.id
       IN <<first>> \o OrderByCreatedAtAsc(rows \ {first})

\* ORDER BY created_at DESC (rows of one created_at in rowid order)
RECURSIVE OrderByCreatedAtDesc(_)
OrderByCreatedAtDesc(rows) ==
  IF rows = {} THEN <<>>
  ELSE LET first == CHOOSE r \in rows : \A q \in rows :
                      \/ q.created_at < r.created_at
                      \/ q.created_at = r.created_at /\ r.id <= q.id
       IN <<first>> \o OrderByCreatedAtDesc(rows \ {first})

\* LIMIT ? OFFSET ? (a negative LIMIT is no limit, a negative OFFSET is 0)
LimitOffset(rows, limit, offset) ==
  LET from == IF offset < 0 THEN 1 ELSE offset + 1
      upto == IF limit < 0 \/ from + limit - 1 > Len(rows) THEN Len(rows)
              ELSE from + limit - 1
  IN IF from > upto THEN <<>> ELSE SubSeq(rows, from, upto)

\* a statement without its WHERE clause: every row matches
WithAnyStatus(rows, status) == rows

\* WHERE status = "..."
WithStatus(rows, status) == {r \in rows : r.status = status}

\* an offset that takes the page for 0-indexed
OffsetFromPage(page, per_page) == page * per_page

\* offset = (page - 1) * per_page
Offset(page, per_page) == (page - 1) * per_page

\* get_pending_startups, get_active_startups, get_completed_startups and
\* get_rejected_startups are one text with four status literals.  First
\* statement: SELECT COUNT(*) FROM startups WHERE status = "..."
get_startups_count(p, op, status, page, per_page) ==
  /\ pc[p] = "idle"
  /\ \/ /\ schema
        /\ Goes(p, "page",
                [op |-> op, status |-> status, args |-> <<page, per_page>>,
                 total |-> Cardinality(WithStatus(startups, status)),
                 seen |-> commits])
     \/ Fails(p, op, <<page, per_page>>, <<<<>>, 0>>)
  /\ UNCHANGED <<db, now, lastSave, applied>>

\* second statement: SELECT * ... ORDER BY created_at DESC LIMIT ? OFFSET ?
get_startups_page(p) ==
  /\ pc[p] = "page"
  /\ LET page == loc[p].args[1]
         per_page == loc[p].args[2]
         offset == Offset(page, per_page)
     IN \/ /\ schema
           /\ Returns(p, loc[p].op, loc[p].args,
                      <<LimitOffset(OrderByCreatedAtDesc(WithStatus(startups, loc[p].status)),
                                    per_page, offset),
                        loc[p].total>>)
        \/ Fails(p, loc[p].op, loc[p].args, <<<<>>, 0>>)
  /\ UNCHANGED <<db, now, lastSave, applied>>

get_pending_startups(p, page, per_page) ==
  get_startups_count(p, "get_pending_startups", "pending", page, per_page)
get_active_startups(p, page, per_page) ==
  get_startups_count(p, "get_active_startups", "active", page, per_page)
get_completed_startups(p, page, per_page) ==
  get_startups_count(p, "get_completed_startups", "completed", page, per_page)
get_rejected_startups(p, page, per_page) ==
  get_startups_count(p, "get_rejected_startups", "rejected", page, per_page)

\* an update that leaves a completed or rejected startup as it is
SetStartupStatusLegal(rows, startup_id, status, at) ==
  {IF r.id # startup_id \/ r.status \in {"completed", "rejected"} THEN r
   ELSE IF status = "active" THEN [r EXCEPT !.status = status, !.started_at = Some(at)]
   ELSE IF status = "completed" THEN [r EXCEPT !.status = status, !.ended_at = Some(at)]
   ELSE [r EXCEPT !.status = status] : r \in rows}

\* an update that writes the status and no timestamp, whatever the status
SetStartupStatusOnly(rows, startup_id, status, at) ==
  {IF r.id # startup_id THEN r ELSE [r EXCEPT !.status = status] : r \in rows}

\* an update whose last branch writes all three columns, the timestamps as NULL
SetStartupStatusReset(rows, startup_id, status, at) ==
  {IF r.id # startup_id THEN r
   ELSE IF status = "active" THEN [r EXCEPT !.status = status, !.started_at = Some(at)]
   ELSE IF status = "completed" THEN [r EXCEPT !.status = status, !.ended_at = Some(at)]
   ELSE [r EXCEPT !.status = status, !.started_at = None, !.ended_at = None] : r \in rows}

\* the UPDATE of update_startup_status, by the branch the status takes
SetStartupStatus(rows, startup_id, status, at) ==
  {IF r.id # startup_id THEN r
   ELSE IF status = "active" THEN [r EXCEPT !.status = status, !.started_at = Some(at)]
   ELSE IF status = "completed" THEN [r EXCEPT !.status = status, !.ended_at = Some(at)]
   ELSE [r EXCEPT !.status = status] : r \in rows}

update_startup_status(p, startup_id, status) ==
  /\ pc[p] = "idle"
  /\ \/ /\ schema
        /\ startups' = SetStartupStatus(startups, startup_id, status, now)
        /\ now' = IF status \in {"active", "completed"} THEN now + 1 ELSE now
        /\ applied' = IF /\ status \in {"active", "completed"}
                          /\ \E r \in startups : r.id = startup_id
                         THEN applied \cup {<<startup_id, status>>}
                         ELSE applied
        /\ Commits(p, "update_startup_status", <<startup_id, status>>, None)
     \/ /\ UNCHANGED <<startups, commits, now, applied>>
        /\ Fails(p, "update_startup_status", <<startup_id, status>>, None)
  /\ UNCHANGED <<schema, users, startup_members, seq, lastSave>>

\* UPDATE startups SET results = ? WHERE id = ?
SetStartupResults(rows, startup_id, results) ==
  {IF r.id = startup_id THEN [r EXCEPT !.results = results] ELSE r : r \in rows}

update_startup_results(p, startup_id, results) ==
  /\ pc[p] = "idle"
  /\ \/ /\ schema
        /\ startups' = SetStartupResults(startups, startup_id, results)
        /\ Commits(p, "update_startup_results", <<startup_id, results>>, None)
     \/ /\ UNCHANGED <<startups, commits>>
        /\ Fails(p, "update_startup_results", <<startup_id, results>>, None)
  /\ UNCHANGED <<schema, users, startup_members, seq, now, lastSave, applied>>

\* ------------------------------------------------------ the users of the layer
\* ---------------------------------------------------------- startup_members
\* SELECT id FROM startup_members WHERE startup_id = ? (the user_id is forgotten)
SelectMemberByStartup(startup_id, user_id) ==
  {r \in startup_members : r.startup_id = startup_id}

\* SELECT id FROM startup_members WHERE startup_id = ? AND user_id = ?
SelectMember(startup_id, user_id) ==
  {r \in startup_members : r.startup_id = startup_id /\ r.user_id = user_id}

\* a table without the constraint
NotUnique(rows, new) == TRUE

\* UNIQUE(startup_id, user_id): whether the table takes the new row
UniquePair(rows, new) ==
  \A r \in rows : ~(r.startup_id = new.startup_id /\ r.user_id = new.user_id)

\* the row INSERT INTO startup_members (startup_id, user_id, joined_at) writes
NewMemberRow(id, startup_id, user_id, joined_at) ==
  [id |-> id, startup_id |-> startup_id, user_id |-> user_id, status |-> "pending",
   joined_at |-> joined_at]

\* add_startup_member up to its return of an existing request
add_startup_member(p, startup_id, user_id) ==
  /\ pc[p] = "idle"
  /\ \/ /\ schema
        /\ LET existing == FetchOne(SelectMember(startup_id, user_id))
           IN IF existing # None
                THEN Returns(p, "add_startup_member", <<startup_id, user_id>>,
                             Some(existing[1].id))
                ELSE Goes(p, "member_insert",
                          [op |-> "add_startup_member", args |-> <<startup_id, user_id>>])
     \/ Fails(p, "add_startup_member", <<startup_id, user_id>>, None)
  /\ UNCHANGED <<db, now, lastSave, applied>>

\* the INSERT, cursor.lastrowid and the commit of add_startup_member; the
\* INSERT raises sqlite3.IntegrityError when the pair is there by now
add_startup_member_insert(p) ==
  /\ pc[p] = "member_insert"
  /\ LET a == loc[p].args
         new == NewMemberRow(seq.startup_members + 1, a[1], a[2], now)
     IN \/ /\ schema
           /\ UniquePair(startup_members, new)
           /\ startup_members' = startup_members \cup {new}
           /\ seq' = [seq EXCEPT !.startup_members = new.id]
           /\ now' = now + 1
           /\ Commits(p, "add_startup_member", a, Some(new.id))
        \/ /\ UNCHANGED <<startup_members, seq, commits, now>>
           /\ Fails(p, "add_startup_member", a, None)
  /\ UNCHANGED <<schema, users, startups, lastSave, applied>>

get_join_request_id(p, startup_id, user_id) ==
  /\ pc[p] = "idle"
  /\ \/ /\ schema
        /\ LET request == FetchOne(SelectMember(startup_id, user_id))
           IN Returns(p, "get_join_request_id", <<startup_id, user_id>>,
                      IF request # None THEN Some(request[1].id) ELSE None)
     \/ Fails(p, "get_join_request_id", <<startup_id, user_id>>, None)
  /\ UNCHANGED <<db, now, lastSave, applied>>

\* UPDATE startup_members SET status = ? WHERE id = ?
SetRequestStatus(rows, request_id, status) ==
  {IF r.id = request_id THEN [r EXCEPT !.status = status] ELSE r : r \in rows}

update_join_request(p, request_id, status) ==
  /\ pc[p] = "idle"
  /\ \/ /\ schema
        /\ startup_members' = SetRequestStatus(startup_members, request_id, status)
        /\ Commits(p, "update_join_request", <<request_id, status>>, None)
     \/ /\ UNCHANGED <<startup_members, commits>>
        /\ Fails(p, "update_join_request", <<request_id, status>>, None)
  /\ UNCHANGED <<schema, users, startups, seq, now, lastSave, applied>>

\* the members of a startup, whatever their status
AnyMembers(startup_id) == {r \in startup_members : r.startup_id = startup_id}

\* WHERE sm.startup_id = ? AND sm.status = "accepted"
AcceptedMembers(startup_id) ==
  {r \in startup_members : r.startup_id = startup_id /\ r.status = "accepted"}

\* a result set in rowid order (the listings of members have no ORDER BY)
RECURSIVE InRowidOrder(_)
InRowidOrder(rows) ==
  IF rows = {} THEN <<>>
  ELSE LET first == CHOOSE r \in rows : \A q \in rows : r.id <= q.id
       IN <<first>> \o InRowidOrder(rows \ {first})

\* FROM startup_members sm JOIN users u ON sm.user_id = u.user_id, one entry
\* for every pair of rows that match, in the rowid order of sm
RECURSIVE JoinUsers(_)
JoinUsers(members) ==
  IF members = <<>> THEN <<>>
  ELSE LET sm == Head(members)
       IN InRowidOrder({u \in users : u.user_id = sm.user_id}) \o JoinUsers(Tail(members))

\* SELECT u.user_id, u.first_name, u.last_name, u.username, u.phone, u.bio
MemberColumns(u) ==
  [user_id |-> u.user_id, first_name |-> u.first_name, last_name |-> u.last_name,
   username |-> u.username, phone |-> u.phone, bio |-> u.bio]

\* get_startup_members, first statement: SELECT COUNT(*) of the join
get_startup_members(p, startup_id, page, per_page) ==
  /\ pc[p] = "idle"
  /\ \/ /\ schema
        /\ Goes(p, "members_page",
                [op |-> "get_startup_members", args |-> <<startup_id, page, per_page>>,
                 total |-> Len(JoinUsers(InRowidOrder(AcceptedMembers(startup_id)))),
                 seen |-> commits])
     \/ Fails(p, "get_startup_members", <<startup_id, page, per_page>>, <<<<>>, 0>>)
  /\ UNCHANGED <<db, now, lastSave, applied>>

\* second statement: the columns of the join, LIMIT ? OFFSET ?
get_startup_members_page(p) ==
  /\ pc[p] = "members_page"
  /\ LET a == loc[p].args
         joined == JoinUsers(InRowidOrder(AcceptedMembers(a[1])))
         members == LimitOffset([i \in 1..Len(joined) |-> MemberColumns(joined[i])],
                                a[3], Offset(a[2], a[3]))
     IN \/ /\ schema
           /\ Returns(p, "get_startup_members", a, <<members, loc[p].total>>)
        \/ Fails(p, "get_startup_members", a, <<<<>>, 0>>)
  /\ UNCHANGED <<db, now, lastSave, applied>>

get_all_startup_members(p, startup_id) ==
  /\ pc[p] = "idle"
  /\ \/ /\ schema
        /\ LET rows == InRowidOrder(AcceptedMembers(startup_id))
           IN Returns(p, "get_all_startup_members", <<startup_id>>,
                      [i \in 1..Len(rows) |-> rows[i].user_id])
     \/ Fails(p, "get_all_startup_members", <<startup_id>>, <<>>)
  /\ UNCHANGED <<db, now, lastSave, applied>>

\* ------------------------------------------------------ the remaining reads
get_startup(p, startup_id) ==
  /\ pc[p] = "idle"
  /\ \/ /\ schema
        /\ Returns(p, "get_startup", <<startup_id>>,
                   FetchOne({r \in startups : r.id = startup_id}))
     \/ Fails(p, "get_startup", <<startup_id>>, None)
  /\ UNCHANGED <<db, now, lastSave, applied>>

\* SELECT * FROM startups WHERE owner_id = ? ORDER BY created_at DESC
get_startups_by_owner(p, owner_id) ==
  /\ pc[p] = "idle"
  /\ \/ /\ schema
        /\ Returns(p, "get_startups_by_owner", <<owner_id>>,
                   OrderByCreatedAtDesc({r \in startups : r.owner_id = owner_id}))
     \/ Fails(p, "get_startups_by_owner", <<owner_id>>, <<>>)
  /\ UNCHANGED <<db, now, lastSave, applied>>

\* SELECT user_id FROM users
get_all_users(p) ==
  /\ pc[p] = "idle"
  /\ \/ /\ schema
        /\ LET rows == InRowidOrder(users)
           IN Returns(p, "get_all_users", <<>>, [i \in 1..Len(rows) |-> rows[i].user_id])
     \/ Fails(p, "get_all_users", <<>>, <<>>)
  /\ UNCHANGED <<db, now, lastSave, applied>>

\* ORDER BY joined_at DESC (rows of one joined_at in rowid order)
RECURSIVE OrderByJoinedAtDesc(_)
OrderByJoinedAtDesc(rows) ==
  IF rows = {} THEN <<>>
  ELSE LET first == CHOOSE r \in rows : \A q \in rows :
                      \/ q.joined_at < r.joined_at
                      \/ q.joined_at = r.joined_at /\ r.id <= q.id
       IN <<first>> \o OrderByJoinedAtDesc(rows \ {first})

\* SELECT user_id, username, first_name, last_name, joined_at FROM users
\* ORDER BY joined_at DESC LIMIT ?
get_recent_users(p, limit) ==
  /\ pc[p] = "idle"
  /\ \/ /\ schema
        /\ LET rows == LimitOffset(OrderByJoinedAtDesc(users), limit, 0)
           IN Returns(p, "get_recent_users", <<limit>>,
                      [i \in 1..Len(rows) |->
                         [user_id |-> rows[i].user_id, username |-> rows[i].username,
                          first_name |-> rows[i].first_name,
                          last_name |-> rows[i].last_name,
                          joined_at |-> rows[i].joined_at]])
     \/ Fails(p, "get_recent_users", <<limit>>, <<>>)
  /\ UNCHANGED <<db, now, lastSave, applied>>

\* SELECT id, name, status, created_at FROM startups ORDER BY created_at DESC LIMIT ?
get_recent_startups(p, limit) ==
  /\ pc[p] = "idle"
  /\ \/ /\ schema
        /\ LET rows == LimitOffset(OrderByCreatedAtDesc(startups), limit, 0)
           IN Returns(p, "get_recent_startups", <<limit>>,
                      [i \in 1..Len(rows) |->
                         [id |-> rows[i].id, name |-> rows[i].name,
                          status |-> rows[i].status,
                          created_at |-> rows[i].created_at]])
     \/ Fails(p, "get_recent_startups", <<limit>>, <<>>)
  /\ UNCHANGED <<db, now, lastSave, applied>>

\* --------------------------------------------------------------- statistics
\* the fifth statement counts "completed" and so does the sixth
StatisticsQueryTypo(k) ==
  CASE k = 1 -> Cardinality(users)
    [] k = 2 -> Cardinality(startups)
    [] k = 3 -> Cardinality(WithStatus(startups, "active"))
    [] k = 4 -> Cardinality(WithStatus(startups, "pending"))
    [] k = 5 -> Cardinality(WithStatus(startups, "completed"))
    [] k = 6 -> Cardinality(WithStatus(startups, "completed"))

\* the first two statements in the other order
StatisticsQuerySwapped(k) ==
  CASE k = 1 -> Cardinality(startups)
    [] k = 2 -> Cardinality(users)
    [] k = 3 -> Cardinality(WithStatus(startups, "active"))
    [] k = 4 -> Cardinality(WithStatus(startups, "pending"))
    [] k = 5 -> Cardinality(WithStatus(startups, "completed"))
    [] k = 6 -> Cardinality(WithStatus(startups, "rejected"))

\* the six SELECT COUNT(*) statements of get_statistics, in their order
StatisticsQuery(k) ==
  CASE k = 1 -> Cardinality(users)
    [] k = 2 -> Cardinality(startups)
    [] k = 3 -> Cardinality(WithStatus(startups, "active"))
    [] k = 4 -> Cardinality(WithStatus(startups, "pending"))
    [] k = 5 -> Cardinality(WithStatus(startups, "completed"))
    [] k = 6 -> Cardinality(WithStatus(startups, "rejected"))

\* the mapping get_statistics returns, from the six counts in their order
Statistics(counts) ==
  [total_users |-> counts[1], total_startups |-> counts[2],
   active_startups |-> counts[3], pending_startups |-> counts[4],
   completed_startups |-> counts[5], rejected_startups |-> counts[6]]

\* get_statistics, first statement
get_statistics(p) ==
  /\ pc[p] = "idle"
  /\ \/ /\ schema
        /\ Goes(p, "stats",
                [op |-> "get_statistics", counts |-> <<StatisticsQuery(1)>>,
                 seen |-> commits, raced |-> FALSE])
     \/ Fails(p, "get_statistics", <<>>, <<>>)
  /\ UNCHANGED <<db, now, lastSave, applied>>

\* get_statistics, each of its next five statements, and its return after the
\* sixth (raced: a write was committed between two of the statements so far)
get_statistics_next(p) ==
  /\ pc[p] = "stats"
  /\ LET k == Len(loc[p].counts) + 1
         counts == Append(loc[p].counts, StatisticsQuery(k))
         raced == loc[p].raced \/ loc[p].seen # commits
     IN \/ /\ schema
           /\ IF k < 6
                THEN Goes(p, "stats",
                          [loc[p] EXCEPT !.counts = counts, !.seen = commits,
                                         !.raced = raced])
                ELSE Returns(p, "get_statistics", <<>>, Statistics(counts))
        \/ Fails(p, "get_statistics", <<>>, <<>>)
  /\ UNCHANGED <<db, now, lastSave, applied>>

\* A caller takes the result of its call before any other statement runs:
\* taking a result touches nothing another process reads.  init_db is what a
\* process calls first, while the tables are not there.
Quiet == \A q \in Procs : pc[q] # "done"

UsersEnv(p) ==
  \/ Return(p)
  \/ Quiet /\ ~schema /\ init_db(p)
  \/ Quiet /\ \E u \in UserIds : get_user(p, u)
  \/ /\ Quiet /\ commits < MaxUserWrites
     /\ \E u \in UserIds, un \in Names, fn \in Names : save_user(p, u, un, fn)
  \/ /\ Quiet /\ commits < MaxUserWrites
     /\ \E u \in UserIds, f \in ProfileColumns \cup {"no_such_column"}, v \in Values :
          update_user_field(p, u, f, v)

NextUsers == \E p \in Procs : UsersEnv(p)
SpecUsers == Init /\ [][NextUsers]_vars

\* the startup ids and statuses the callers pass: one id more than the rows
\* there can be, and one status outside the four of the listings
StartupArgIds == 1..MaxStartupWrites
StatusArgs == StartupStatuses \cup {"archived"}

\* the life of a startup: creation and the updates of its status and results
StartupsEnv(p) ==
  \/ Return(p)
  \/ Quiet /\ ~schema /\ init_db(p)
  \/ /\ Quiet /\ commits < MaxStartupWrites /\ now <= MaxStartupWrites
     /\ \E o \in UserIds : create_startup(p, "n", "d", "l", "g", o)
  \/ Quiet /\ commits < MaxStartupWrites /\ create_startup_insert(p)
  \/ /\ Quiet /\ commits < MaxStartupWrites /\ now <= MaxStartupWrites
     /\ \E i \in StartupArgIds, st \in StatusArgs : update_startup_status(p, i, st)
  \/ /\ Quiet /\ commits < MaxStartupWrites
     /\ \E i \in StartupArgIds : update_startup_results(p, i, "r")

NextStartups == \E p \in Procs : StartupsEnv(p)
SpecStartups == Init /\ [][NextStartups]_vars

\* the paginated listings beside the writes that change what they list; two
\* listings read the same store whatever their order, so one is in flight at a time
OneListing(p) == \A q \in Procs \ {p} : pc[q] # "page"
ListingArgIds == 1..(MaxListingWrites - 1)

ListingEnv(p) ==
  \/ Return(p)
  \/ Quiet /\ ~schema /\ init_db(p)
  \/ /\ Quiet /\ commits < MaxListingWrites /\ now <= MaxListingWrites
     /\ create_startup(p, "n", "d", "l", "g", 1)
  \/ Quiet /\ commits < MaxListingWrites /\ create_startup_insert(p)
  \/ /\ Quiet /\ commits < MaxListingWrites /\ now <= MaxListingWrites
     /\ \E i \in ListingArgIds, st \in StartupStatuses : update_startup_status(p, i, st)
  \/ Quiet /\ OneListing(p) /\ \E page \in 1..MaxPage, per_page \in 1..MaxPerPage :
                get_pending_startups(p, page, per_page)
  \/ Quiet /\ OneListing(p) /\ \E page \in 1..MaxPage, per_page \in 1..MaxPerPage :
                get_active_startups(p, page, per_page)
  \/ Quiet /\ OneListing(p) /\ \E page \in 1..MaxPage, per_page \in 1..MaxPerPage :
                get_completed_startups(p, page, per_page)
  \/ Quiet /\ OneListing(p) /\ \E page \in 1..MaxPage, per_page \in 1..MaxPerPage :
                get_rejected_startups(p, page, per_page)
  \/ Quiet /\ get_startups_page(p)

NextListing == \E p \in Procs : ListingEnv(p)
SpecListing == Init /\ [][NextListing]_vars

\* membership requests; the startups and users they name need not exist
\* (sqlite3 does not enforce the FOREIGN KEY clauses)
RequestArgIds == 1..(MaxMemberWrites - 1)
RequestStatuses == {"pending", "accepted", "rejected"}

MembersEnv(p) ==
  \/ Return(p)
  \/ Quiet /\ ~schema /\ init_db(p)
  \/ Quiet /\ \E s \in StartupIds, u \in UserIds : add_startup_member(p, s, u)
  \/ Quiet /\ commits < MaxMemberWrites /\ add_startup_member_insert(p)
  \/ Quiet /\ \E s \in StartupIds, u \in UserIds : get_join_request_id(p, s, u)
  \/ /\ Quiet /\ commits < MaxMemberWrites
     /\ \E i \in RequestArgIds, st \in RequestStatuses : update_join_request(p, i, st)

NextMembers == \E p \in Procs : MembersEnv(p)
SpecMembers == Init /\ [][NextMembers]_vars

\* the listings of a startup's members beside the writes that change them
RosterArgIds == 1..(MaxRosterWrites - 1)
OneRoster(p) == \A q \in Procs \ {p} : pc[q] # "members_page"

RosterEnv(p) ==
  \/ Return(p)
  \/ Quiet /\ ~schema /\ init_db(p)
  \/ /\ Quiet /\ commits < MaxRosterWrites
     /\ \E u \in UserIds : save_user(p, u, "a", "a")
  \/ Quiet /\ \E s \in StartupIds, u \in UserIds : add_startup_member(p, s, u)
  \/ Quiet /\ commits < MaxRosterWrites /\ add_startup_member_insert(p)
  \/ /\ Quiet /\ commits < MaxRosterWrites
     /\ \E i \in RosterArgIds, st \in {"accepted", "rejected"} : update_join_request(p, i, st)
  \/ /\ Quiet /\ OneRoster(p)
     /\ \E s \in StartupIds, page \in 1..MaxPage, per_page \in 1..MaxPerPage :
          get_startup_members(p, s, page, per_page)
  \/ Quiet /\ get_startup_members_page(p)
  \/ Quiet /\ \E s \in StartupIds : get_all_startup_members(p, s)

NextRoster == \E p \in Procs : RosterEnv(p)
SpecRoster == Init /\ [][NextRoster]_vars

\* the statistics beside the writes that change what they count
StatsArgIds == 1..(MaxStatsWrites - 1)
OneStatistics(p) == \A q \in Procs \ {p} : pc[q] # "stats"

StatsEnv(p) ==
  \/ Return(p)
  \/ Quiet /\ ~schema /\ init_db(p)
  \/ /\ Quiet /\ commits < MaxStatsWrites
     /\ \E u \in UserIds : save_user(p, u, "a", "a")
  \/ /\ Quiet /\ commits < MaxStatsWrites /\ now <= MaxStatsWrites
     /\ create_startup(p, "n", "d", "l", "g", 1)
  \/ Quiet /\ commits < MaxStatsWrites /\ create_startup_insert(p)
  \/ /\ Quiet /\ commits < MaxStatsWrites /\ now <= MaxStatsWrites
     /\ \E i \in StatsArgIds, st \in StatusArgs : update_startup_status(p, i, st)
  \/ Quiet /\ OneStatistics(p) /\ get_statistics(p)
  \/ Quiet /\ get_statistics_next(p)

NextStats == \E p \in Procs : StatsEnv(p)
SpecStats == Init /\ [][NextStats]_vars

\* the startups of an owner beside the creations and the status updates
OwnerArgIds == 1..(MaxOwnerWrites - 1)

OwnerEnv(p) ==
  \/ Return(p)
  \/ Quiet /\ ~schema /\ init_db(p)
  \/ /\ Quiet /\ commits < MaxOwnerWrites /\ now <= MaxOwnerWrites
     /\ \E o \in UserIds : create_startup(p, "n", "d", "l", "g", o)
  \/ Quiet /\ commits < MaxOwnerWrites /\ create_startup_insert(p)
  \/ /\ Quiet /\ commits < MaxOwnerWrites /\ now <= MaxOwnerWrites
     /\ \E i \in OwnerArgIds, st \in {"active", "rejected"} : update_startup_status(p, i, st)
  \/ Quiet /\ \E o \in UserIds : get_startups_by_owner(p, o)
  \/ Quiet /\ OneListing(p) /\ get_active_startups(p, 1, MaxPerPage)
  \/ Quiet /\ get_startups_page(p)

NextOwner == \E p \in Procs : OwnerEnv(p)
SpecOwner == Init /\ [][NextOwner]_vars

\* the statuses of startups and of membership requests under the updates
\* their callers send; ids up to one more than the rows there can be
StatusArgIds == 1..MaxStatusWrites

StatusEnv(p) ==
  \/ Return(p)
  \/ Quiet /\ ~schema /\ init_db(p)
  \/ /\ Quiet /\ commits < MaxStatusWrites /\ now <= MaxStatusWrites
     /\ create_startup(p, "n", "d", "l", "g", 1)
  \/ Quiet /\ commits < MaxStatusWrites /\ create_startup_insert(p)
  \/ /\ Quiet /\ commits < MaxStatusWrites /\ now <= MaxStatusWrites
     /\ \E i \in StatusArgIds, st \in StatusArgs : update_startup_status(p, i, st)
  \/ Quiet /\ \E u \in UserIds : add_startup_member(p, 1, u)
  \/ Quiet /\ commits < MaxStatusWrites /\ add_startup_member_insert(p)
  \/ /\ Quiet /\ commits < MaxStatusWrites
     /\ \E i \in StatusArgIds, st \in RequestStatuses \cup {"archived"} :
          update_join_request(p, i, st)

NextStatus == \E p \in Procs : StatusEnv(p)
SpecStatus == Init /\ [][NextStatus]_vars

\* every function of the layer, called by either process in any order; one
\* call of several statements is in flight at a time, beside the calls of one
\* statement of the other process
Alone(p) == \A q \in Procs \ {p} : pc[q] = "idle"

Env(p) ==
  \/ Return(p)
  \/ Quiet /\ init_db(p)
  \/ Quiet /\ \E u \in UserIds : get_user(p, u)
  \/ /\ Quiet /\ commits < MaxWrites
     /\ \E u \in UserIds : save_user(p, u, "a", "b")
  \/ /\ Quiet /\ commits < MaxWrites
     /\ \E u \in UserIds, f \in {"username", "bio", "no_such_column"} :
          update_user_field(p, u, f, "v")
  \/ /\ Quiet /\ Alone(p) /\ commits < MaxWrites /\ now <= MaxWrites
     /\ create_startup(p, "n", "d", "l", "g", 1)
  \/ Quiet /\ commits < MaxWrites /\ create_startup_insert(p)
  \/ Quiet /\ get_startup(p, 1)
  \/ Quiet /\ get_startups_by_owner(p, 1)
  \/ Quiet /\ Alone(p) /\ get_pending_startups(p, 1, MaxPerPage)
  \/ Quiet /\ Alone(p) /\ get_active_startups(p, 1, MaxPerPage)
  \/ Quiet /\ Alone(p) /\ get_completed_startups(p, 1, MaxPerPage)
  \/ Quiet /\ Alone(p) /\ get_rejected_startups(p, 1, MaxPerPage)
  \/ Quiet /\ get_startups_page(p)
  \/ /\ Quiet /\ commits < MaxWrites /\ now <= MaxWrites
     /\ \E st \in StatusArgs : update_startup_status(p, 1, st)
  \/ /\ Quiet /\ commits < MaxWrites
     /\ update_startup_results(p, 1, "r")
  \/ Quiet /\ Alone(p) /\ \E u \in UserIds : add_startup_member(p, 1, u)
  \/ Quiet /\ commits < MaxWrites /\ add_startup_member_insert(p)
  \/ Quiet /\ \E u \in UserIds : get_join_request_id(p, 1, u)
  \/ /\ Quiet /\ commits < MaxWrites
     /\ \E st \in RequestStatuses : update_join_request(p, 1, st)
  \/ /\ Quiet /\ Alone(p)
     /\ get_startup_members(p, 1, 1, MaxPerPage)
  \/ Quiet /\ get_startup_members_page(p)
  \/ Quiet /\ get_all_startup_members(p, 1)
  \/ Quiet /\ Alone(p) /\ get_statistics(p)
  \/ Quiet /\ get_statistics_next(p)
  \/ Quiet /\ get_all_users(p)
  \/ Quiet /\ get_recent_users(p, MaxPerPage)
  \/ Quiet /\ get_recent_startups(p, MaxPerPage)

Next == \E p \in Procs : Env(p)
Spec == Init /\ [][Next]_vars

\* ------------------------------------------------------------------ claims
\* process p has just finished a call of op that the engine served
Finished(p, op) ==
  pc[p] # "done" /\ pc'[p] = "done" /\ ret'[p].op = op /\ ret'[p].how = "ok"

\* C3: there is at most one users row per user_id, and while no
\* update_user_field has touched username or first_name since the last
\* save_user served for a user_id, the stored row and what get_user returns
\* for it carry the username and first_name of that save_user.
C3_UpsertLatest ==
  /\ \A r1 \in users, r2 \in users : r1.user_id = r2.user_id => r1 = r2
  /\ \A u \in UserIds : lastSave[u] # None =>
       /\ \E r \in users : /\ r.user_id = u
                           /\ r.username = lastSave[u][1].username
                           /\ r.first_name = lastSave[u][1].first_name
       /\ \A p \in Procs :
            (pc[p] = "done" /\ ret[p].op = "get_user" /\ ret[p].how = "ok"
               /\ ret[p].args[1] = u) =>
              /\ ret[p].val # None
              /\ ret[p].val[1].user_id = u
              /\ ret[p].val[1].username = lastSave[u][1].username
              /\ ret[p].val[1].first_name = lastSave[u][1].first_name

\* C3 witness: a user saved twice under different names, read back with the
\* names of the second save, beside the row of another user
C3_Witness ==
  /\ Cardinality(users) = 2
  /\ \E p \in Procs :
       /\ pc[p] = "done" /\ ret[p].op = "get_user" /\ ret[p].how = "ok"
       /\ ret[p].val # None
       /\ ret[p].val[1].id = 3
       /\ ret[p].val[1].username = "b"
       /\ ret[p].val[1].first_name = "a"

\* C9: a save_user that is served leaves one row for its user_id, with the
\* names given, with last_name, phone, gender, birth_date and bio at their
\* default '' and with joined_at the time of this call, whatever the row held.
C9_FullReplace ==
  [][\A p \in Procs : Finished(p, "save_user") =>
       LET a == ret'[p].args
           rows == {r \in users' : r.user_id = a[1]}
       IN /\ Cardinality(rows) = 1
          /\ \A r \in rows :
               /\ r.username = a[2] /\ r.first_name = a[3]
               /\ \A c \in DefaultedColumns : r[c] = ""
               /\ r.joined_at = now
               /\ \A old \in users : old.joined_at < r.joined_at]_vars

\* C9 witness: the third write of a run is a save_user of a user_id whose row
\* was first saved and then changed by update_user_field; the row is new (a
\* second id) and holds the defaults
C9_Witness ==
  /\ commits = 3 /\ seq.users = 2
  /\ Cardinality(users) = 1
  /\ pc[1] = "done" /\ ret[1].op = "save_user" /\ ret[1].how = "ok" /\ ret[1].args[1] = 1
  /\ \E r \in users : r.id = 2 /\ r.user_id = 1 /\ r.bio = "" /\ r.joined_at = 2

\* C4: update_startup_status of an existing startup to 'active' sets status
\* and a non-null started_at and leaves ended_at as it was; to 'completed' it
\* sets status and a non-null ended_at and leaves started_at as it was; to any
\* other status it changes the status column only.  No other column and no
\* other row changes.
C4_StatusFrame ==
  [][\A p \in Procs : Finished(p, "update_startup_status") =>
       LET id == ret'[p].args[1]
           status == ret'[p].args[2]
       IN /\ {r.id : r \in startups'} = {r.id : r \in startups}
          /\ \A old \in startups : \A new \in startups' : new.id = old.id =>
               IF old.id # id THEN new = old
               ELSE /\ new.status = status
                    /\ IF status = "active"
                         THEN /\ new.started_at # None
                              /\ new = [old EXCEPT !.status = status,
                                                   !.started_at = new.started_at]
                       ELSE IF status = "completed"
                         THEN /\ new.ended_at # None
                              /\ new = [old EXCEPT !.status = status,
                                                   !.ended_at = new.ended_at]
                       ELSE new = [old EXCEPT !.status = status]]_vars

\* C4 witness: a startup that was started has been moved to a status other
\* than active and completed, and its started_at is still there
C4_Witness ==
  \E p \in Procs : \E r \in startups :
    /\ pc[p] = "done" /\ ret[p].op = "update_startup_status" /\ ret[p].how = "ok"
    /\ ret[p].args = <<r.id, "rejected">>
    /\ r.status = "rejected" /\ r.started_at # None /\ r.ended_at = None

\* the status each paginated listing filters on
ListedStatus(op) ==
  CASE op = "get_pending_startups" -> "pending"
    [] op = "get_active_startups" -> "active"
    [] op = "get_completed_startups" -> "completed"
    [] op = "get_rejected_startups" -> "rejected"

ListingOps ==
  {"get_pending_startups", "get_active_startups", "get_completed_startups",
   "get_rejected_startups"}

\* C5: when no write is committed between the two statements of a paginated
\* listing of status S, the total it returns is the number of startups of
\* status S, and the page holds, newest first, exactly the startups of status
\* S that have between (page-1)*per_page and (page-1)*per_page + per_page - 1
\* newer startups of status S; past the last page the list is empty.
C5_Pagination ==
  [][\A p \in Procs :
       (pc[p] = "page" /\ pc'[p] = "done" /\ ret'[p].how = "ok" /\ loc[p].seen = commits) =>
         LET S == {r \in startups : r.status = ListedStatus(ret'[p].op)}
             page == ret'[p].args[1]
             per_page == ret'[p].args[2]
             rows == ret'[p].val[1]
             total == ret'[p].val[2]
             first == (page - 1) * per_page
             newer(r) == Cardinality({q \in S : q.created_at > r.created_at})
         IN /\ total = Cardinality(S)
            /\ Len(rows) <= per_page
            /\ \A i \in 1..Len(rows) : rows[i] \in S /\ newer(rows[i]) = first + i - 1
            /\ \A r \in S : (first <= newer(r) /\ newer(r) < first + per_page) =>
                 \E i \in 1..Len(rows) : rows[i] = r
            /\ first >= total => rows = <<>>]_vars

\* C5 witness: three pending startups, per_page 2: page 2 holds the oldest
\* one and the total is 3
C5_Witness ==
  \E p \in Procs :
    /\ pc[p] = "done" /\ ret[p].op = "get_pending_startups" /\ ret[p].how = "ok"
    /\ ret[p].args = <<2, 2>>
    /\ ret[p].val[2] = 3
    /\ Len(ret[p].val[1]) = 1
    /\ ret[p].val[1][1].id = 1
    /\ Cardinality({r \in startups : r.status = "pending"}) = 3

\* C10: a create_startup that is served adds exactly one row, made of the
\* caller's own arguments and clock reading, with status 'pending', results
\* '', started_at and ended_at NULL, and returns the id of that row, an id no
\* row had before; the rows there were stay as they were.
C10_CreateStartup ==
  [][\A p \in Procs : Finished(p, "create_startup") =>
       /\ ret'[p].val # None
       /\ \E new \in startups' :
            /\ new \notin startups
            /\ startups' = startups \cup {new}
            /\ new.id = ret'[p].val[1]
            /\ \A old \in startups : old.id # new.id
            /\ new.status = "pending" /\ new.results = ""
            /\ new.started_at = None /\ new.ended_at = None
            /\ <<new.name, new.description, new.logo, new.group_link, new.owner_id>>
                 = ret'[p].args
            /\ new.created_at = loc[p].created_at]_vars

\* C10 witness: two create_startup calls interleave: the caller that read the
\* clock first inserts second, and is given the id of its own row
C10_Witness ==
  \E p \in Procs :
    /\ pc[p] = "done" /\ ret[p].op = "create_startup" /\ ret[p].val = Some(2)
    /\ ret[p].args[5] = 1
    /\ \E r1 \in startups, r2 \in startups :
         /\ r1.id = 1 /\ r1.owner_id = 2 /\ r1.created_at = 2
         /\ r2.id = 2 /\ r2.owner_id = 1 /\ r2.created_at = 1

\* the startup_members rows of a (startup_id, user_id) pair
PairRows(rows, startup_id, user_id) ==
  {r \in rows : r.startup_id = startup_id /\ r.user_id = user_id}

\* C1: no step removes a startup_members row or changes its id or its pair;
\* an add_startup_member that the engine serves returns the id of the one row
\* the pair then has, and when the pair had a row already the table is left
\* as it was (the status of the row included); get_join_request_id returns
\* the id of the pair's row.  So two calls in sequence, with
\* update_join_request calls between them, return one id.
C1_AddIdempotent ==
  [][/\ \A r \in startup_members : \E n \in startup_members' :
          n.id = r.id /\ n.startup_id = r.startup_id /\ n.user_id = r.user_id
     /\ \A p \in Procs : Finished(p, "add_startup_member") =>
          LET a == ret'[p].args
              before == PairRows(startup_members, a[1], a[2])
              after == PairRows(startup_members', a[1], a[2])
          IN /\ Cardinality(after) = 1
             /\ \A r \in after : ret'[p].val = Some(r.id)
             /\ before # {} => startup_members' = startup_members
             /\ before = {} => \A r \in after : r.status = "pending"
     /\ \A p \in Procs : Finished(p, "get_join_request_id") =>
          LET a == ret'[p].args
              rows == PairRows(startup_members, a[1], a[2])
          IN /\ rows # {} => \E r \in rows : ret'[p].val = Some(r.id)
             /\ rows = {} => ret'[p].val = None]_vars

\* C1 witness: the second add_startup_member of a pair, called after the
\* request was accepted, returns the id of the first and the row is still accepted
C1_Witness ==
  \E p \in Procs :
    /\ pc[p] = "done" /\ ret[p].op = "add_startup_member" /\ ret[p].how = "ok"
    /\ ret[p].args = <<2, 1>> /\ ret[p].val = Some(2)
    /\ seq.startup_members = 2 /\ commits = 3
    /\ \E r \in startup_members :
         r.id = 2 /\ r.startup_id = 2 /\ r.user_id = 1 /\ r.status = "accepted"

\* C2: in every reachable state startup_members holds at most one row per
\* (startup_id, user_id) pair.
C2_UniquePair ==
  \A r1 \in startup_members, r2 \in startup_members :
    (r1.startup_id = r2.startup_id /\ r1.user_id = r2.user_id) => r1 = r2

\* C2 witness: an add_startup_member call has run its SELECT, found no row
\* and stands before its INSERT, and meanwhile another call has inserted the
\* row of the same pair
C2_Witness ==
  \E q \in Procs :
    /\ pc[q] = "member_insert"
    /\ PairRows(startup_members, loc[q].args[1], loc[q].args[2]) # {}
    /\ \E p \in Procs \ {q} :
         /\ pc[p] = "done" /\ ret[p].op = "add_startup_member"
         /\ ret[p].how = "ok" /\ ret[p].args = loc[q].args

\* C6 (the claim as stated): when no write is committed between the two
\* statements of get_startup_members, the total is the number of requests of
\* the startup with status 'accepted' and the users listed are users of such
\* requests: a request counts as soon as update_join_request has set it to
\* 'accepted', and not before.
C6_AcceptedOnly ==
  [][\A p \in Procs :
       (pc[p] = "members_page" /\ pc'[p] = "done" /\ ret'[p].how = "ok"
          /\ loc[p].seen = commits) =>
         LET accepted == {r \in startup_members :
                            r.startup_id = ret'[p].args[1] /\ r.status = "accepted"}
             members == ret'[p].val[1]
             total == ret'[p].val[2]
         IN /\ total = Cardinality(accepted)
            /\ \A i \in 1..Len(members) :
                 \E r \in accepted : r.user_id = members[i].user_id]_vars

\* C7: when no write is committed between the statements of get_statistics
\* and every startup has one of the statuses active, pending, completed and
\* rejected, total_startups is the sum of the four counts by status, and
\* total_users is the number of user_ids stored.
C7_StatisticsSum ==
  [][\A p \in Procs :
       (pc[p] = "stats" /\ pc'[p] = "done" /\ ret'[p].how = "ok"
          /\ ~loc[p].raced /\ loc[p].seen = commits
          /\ \A r \in startups : r.status \in StartupStatuses) =>
         LET st == ret'[p].val
         IN /\ st.total_startups = st.active_startups + st.pending_startups
                                     + st.completed_startups + st.rejected_startups
            /\ st.total_startups = Cardinality(startups)
            /\ st.total_users = Cardinality({u.user_id : u \in users})]_vars

\* C7 witness: statistics of a store with one user and two startups, one of
\* them rejected
C7_Witness ==
  \E p \in Procs :
    /\ pc[p] = "done" /\ ret[p].op = "get_statistics" /\ ret[p].how = "ok"
    /\ commits = 3
    /\ Cardinality(startups) = 2
    /\ ret[p].val.total_startups = 2
    /\ ret[p].val.rejected_startups = 1
    /\ ret[p].val.pending_startups = 1

\* what each function returns from its except clause
SafeDefault(op) ==
  CASE op \in {"get_user", "save_user", "update_user_field", "create_startup",
               "get_startup", "update_startup_status", "update_startup_results",
               "add_startup_member", "get_join_request_id", "update_join_request",
               "init_db"} -> None
    [] op \in {"get_startups_by_owner", "get_all_startup_members", "get_all_users",
               "get_recent_users", "get_recent_startups"} -> <<>>
    [] op \in ListingOps \cup {"get_startup_members"} -> <<<<>>, 0>>
    [] op = "get_statistics" -> <<>>

\* C8 (the claim as stated): a call in which a statement fails raises nothing
\* to its caller, returns the safe default of its function and leaves the
\* stored data as it was.
C8_FailSoft ==
  [][\A p \in Procs :
       (pc[p] # "done" /\ pc'[p] = "done" /\ ret'[p].how # "ok") =>
         /\ ret'[p].how = "default"
         /\ ret'[p].val = SafeDefault(ret'[p].op)
         /\ <<users, startups, startup_members>>' = <<users, startups, startup_members>>]_vars

\* C6, the state of the divergence: get_startup_members has returned an empty
\* page and a total of 0 for a startup that has an accepted request
C6_Divergence ==
  \E p \in Procs :
    /\ pc[p] = "done" /\ ret[p].op = "get_startup_members" /\ ret[p].how = "ok"
    /\ ret[p].val = <<<<>>, 0>>
    /\ commits = 2
    /\ \E r \in startup_members :
         r.startup_id = ret[p].args[1] /\ r.status = "accepted"

\* C8, the state of the divergence: a failure inside init_db has reached
\* its caller
C8_Divergence ==
  \E p \in Procs :
    pc[p] = "done" /\ ret[p].op = "init_db" /\ ret[p].how = "raised"

\* C11: get_startups_by_owner returns each startup of the owner once and no
\* other startup, whatever their statuses, the later created before the
\* earlier created; get_active_startups, with no write between its two
\* statements, reports as total the number of active startups and lists
\* active startups only.
C11_ByOwner ==
  [][\A p \in Procs :
       /\ Finished(p, "get_startups_by_owner") =>
            LET rows == ret'[p].val
                owned == {r \in startups : r.owner_id = ret'[p].args[1]}
            IN /\ {rows[i] : i \in 1..Len(rows)} = owned
               /\ Len(rows) = Cardinality(owned)
               /\ \A i \in 1..Len(rows), j \in 1..Len(rows) :
                    i < j => rows[i].created_at > rows[j].created_at
       /\ (Finished(p, "get_active_startups") /\ loc[p].seen = commits) =>
            LET rows == ret'[p].val[1]
                active == {r \in startups : r.status = "active"}
            IN /\ ret'[p].val[2] = Cardinality(active)
               /\ \A i \in 1..Len(rows) : rows[i] \in active]_vars

\* C11 witness: three startups of owner 1, the second to be inserted read the
\* clock first and was later made active; get_startups_by_owner(1) has
\* returned the three, the newest first
C11_Witness ==
  \E p \in Procs :
    /\ pc[p] = "done" /\ ret[p].op = "get_startups_by_owner" /\ ret[p].how = "ok"
    /\ ret[p].args = <<1>> /\ Len(ret[p].val) = 3
    /\ ret[p].val[1].id = 3 /\ ret[p].val[2].id = 1 /\ ret[p].val[3].id = 2
    /\ ret[p].val[3].status = "active"
    /\ ret[p].val[1].status = "pending" /\ ret[p].val[2].status = "pending"

\* C12: an update_user_field of a profile column that the engine serves
\* leaves as many users rows as there were; the row of the user_id has the
\* value in that column and every other column as before, every other row is
\* as before, and so are startups and startup_members; when no row has the
\* user_id, users is as before.
C12_FieldFrame ==
  [][\A p \in Procs :
       (Finished(p, "update_user_field") /\ ret'[p].args[2] \in ProfileColumns) =>
         LET user_id == ret'[p].args[1]
             field == ret'[p].args[2]
             value == ret'[p].args[3]
         IN /\ Cardinality(users') = Cardinality(users)
            /\ \A n \in users' : \E r \in users :
                 /\ r.id = n.id
                 /\ r.user_id # user_id => n = r
                 /\ r.user_id = user_id =>
                      /\ n[field] = value
                      /\ \A c \in UserColumns \ {field} : n[c] = r[c]
            /\ (\A r \in users : r.user_id # user_id) => users' = users
            /\ startups' = startups
            /\ startup_members' = startup_members]_vars

\* C12 witness: two users are stored and update_user_field(1, "bio", "v") has
\* been served: the bio of user 1 is "v", its names and the row of user 2 are
\* as save_user wrote them
C12_Witness ==
  \E p \in Procs :
    /\ pc[p] = "done" /\ ret[p].op = "update_user_field" /\ ret[p].how = "ok"
    /\ ret[p].args = <<1, "bio", "v">>
    /\ \E r \in users : r.user_id = 1 /\ r.bio = "v" /\ r.username = "a" /\ r.phone = ""
    /\ \E r \in users : r.user_id = 2 /\ r.bio = "" /\ r.username = "b"

\* C13 (the claim as stated): an add_startup_member call returns the id of
\* the pair's row and never None, also the call whose INSERT comes after the
\* INSERT of another call of the same pair, both having found no row.
C13_NeverNone ==
  [][\A p \in Procs :
       /\ Finished(p, "add_startup_member") =>
            \E r \in PairRows(startup_members', ret'[p].args[1], ret'[p].args[2]) :
              ret'[p].val = Some(r.id)
       /\ (/\ pc[p] = "member_insert" /\ pc'[p] = "done"
           /\ PairRows(startup_members, loc[p].args[1], loc[p].args[2]) # {}) =>
            \E r \in PairRows(startup_members', ret'[p].args[1], ret'[p].args[2]) :
              ret'[p].val = Some(r.id)]_vars

\* C14: in every reachable state, for every startup, started_at is not NULL
\* exactly when an update_startup_status to 'active' has been applied to it,
\* and ended_at is not NULL exactly when one to 'completed' has been; so an
\* active startup has a started_at, a completed startup has an ended_at, and
\* a startup to which neither has been applied has both NULL.
C14_Timestamps ==
  \A r \in startups :
    /\ r.started_at # None <=> <<r.id, "active">> \in applied
    /\ r.ended_at # None <=> <<r.id, "completed">> \in applied
    /\ r.status = "active" => r.started_at # None
    /\ r.status = "completed" => r.ended_at # None
    /\ (<<r.id, "active">> \notin applied /\ <<r.id, "completed">> \notin applied) =>
         (r.started_at = None /\ r.ended_at = None)

\* C14 witness: a startup was made active and then rejected: its started_at
\* stays, its ended_at is NULL
C14_Witness ==
  \E r \in startups :
    /\ r.status = "rejected" /\ r.started_at # None /\ r.ended_at = None
    /\ applied = {<<r.id, "active">>}
    /\ commits = 3

\* C15 (the claim as stated): in every interleaving the six counts of a
\* mapping that get_statistics returns are the counts of one store state.  In
\* one store state the startups counted by status are disjoint sets of the
\* startups counted in total, so the four counts by status together do not
\* exceed total_startups.
C15_Snapshot ==
  [][\A p \in Procs : Finished(p, "get_statistics") =>
       LET st == ret'[p].val
       IN st.active_startups + st.pending_startups + st.completed_startups
            + st.rejected_startups <= st.total_startups]_vars

\* C15 amended: when no write is committed between the first and the last
\* statement of get_statistics, the six counts it returns are the counts of
\* the store as it is then.
C15_SnapshotIfNoWrite ==
  [][\A p \in Procs :
       (Finished(p, "get_statistics") /\ ~loc[p].raced /\ loc[p].seen = commits) =>
         LET st == ret'[p].val
             counted(status) == Cardinality({r \in startups : r.status = status})
         IN /\ st.total_users = Cardinality(users)
            /\ st.total_startups = Cardinality(startups)
            /\ st.active_startups = counted("active")
            /\ st.pending_startups = counted("pending")
            /\ st.completed_startups = counted("completed")
            /\ st.rejected_startups = counted("rejected")]_vars

\* C15 witness: statistics of a store with one user and one startup, which is
\* active
C15_Witness ==
  \E p \in Procs :
    /\ pc[p] = "done" /\ ret[p].op = "get_statistics" /\ ret[p].how = "ok"
    /\ commits = 3
    /\ Cardinality(users) = 1 /\ Cardinality(startups) = 1
    /\ ret[p].val.total_users = 1 /\ ret[p].val.total_startups = 1
    /\ ret[p].val.active_startups = 1 /\ ret[p].val.pending_startups = 0
    /\ \A r \in startups : r.status = "active"

\* C13 amended: an add_startup_member call that the engine serves returns
\* the id of the pair's one row; the call whose INSERT comes after another
\* call has inserted the pair, both having found no row, has its INSERT
\* refused, returns None and leaves the table as the other call wrote it,
\* with one row of the pair.
C13_IdUnlessRaced ==
  [][\A p \in Procs :
       /\ Finished(p, "add_startup_member") =>
            /\ Cardinality(PairRows(startup_members', ret'[p].args[1], ret'[p].args[2])) = 1
            /\ \E r \in PairRows(startup_members', ret'[p].args[1], ret'[p].args[2]) :
                 ret'[p].val = Some(r.id)
       /\ (/\ pc[p] = "member_insert" /\ pc'[p] = "done"
           /\ PairRows(startup_members, loc[p].args[1], loc[p].args[2]) # {}) =>
            /\ ret'[p].how = "default"
            /\ ret'[p].val = None
            /\ startup_members' = startup_members
            /\ Cardinality(PairRows(startup_members, loc[p].args[1], loc[p].args[2])) = 1]_vars

\* C13 witness: a call add_startup_member(1, 2) found no row and has not yet
\* run its INSERT, and the request of the pair is now stored with id 1 by a
\* call that came between
C13_Witness ==
  \E p \in Procs :
    /\ pc[p] = "member_insert" /\ loc[p].args = <<1, 2>>
    /\ commits = 1 /\ seq.startup_members = 1
    /\ startup_members # {}
    /\ \A r \in startup_members :
         r.id = 1 /\ r.startup_id = 1 /\ r.user_id = 2 /\ r.status = "pending"

\* C16: when no write is committed between the count statement and the page
\* statement of a paginated listing, the total it returns is the number of
\* rows that match in the state the page is read from, and the page has no
\* more rows than the total.  (With a write between the two the total can
\* differ from that number: the witness is a page longer than its total.)
C16_CountAndPage ==
  [][\A p \in Procs :
       /\ (pc[p] = "page" /\ pc'[p] = "done" /\ ret'[p].how = "ok"
             /\ loc[p].seen = commits) =>
            /\ ret'[p].val[2] =
                 Cardinality({r \in startups : r.status = ListedStatus(ret'[p].op)})
            /\ Len(ret'[p].val[1]) <= ret'[p].val[2]
       /\ (pc[p] = "members_page" /\ pc'[p] = "done" /\ ret'[p].how = "ok"
             /\ loc[p].seen = commits) =>
            /\ ret'[p].val[2] =
                 Cardinality({r \in startup_members :
                                /\ r.startup_id = ret'[p].args[1]
                                /\ r.status = "accepted"
                                /\ \E u \in users : u.user_id = r.user_id})
            /\ Len(ret'[p].val[1]) <= ret'[p].val[2]]_vars

\* C16 witness: get_active_startups counted no active startup, then an
\* update_startup_status made the one startup active, then the page was read:
\* a page of one row with a total of 0
C16_Witness ==
  \E p \in Procs :
    /\ pc[p] = "done" /\ ret[p].op = "get_active_startups" /\ ret[p].how = "ok"
    /\ ret[p].val[2] = 0 /\ Len(ret[p].val[1]) = 1
    /\ ret[p].val[1][1].status = "active"
    /\ commits = 2
    /\ Cardinality({r \in startups : r.status = "active"}) = 1

\* C17: an update_startup_status(id, s) that the engine serves leaves the
\* status of the startup with that id equal to s, whatever its status was and
\* whatever s is, and an update_join_request(request_id, s) does so for the
\* request with that id; when no row has the id, the store is left as it was.
C17_NoLegality ==
  [][\A p \in Procs :
       /\ Finished(p, "update_startup_status") =>
            LET id == ret'[p].args[1]
                s == ret'[p].args[2]
            IN /\ (\E r \in startups : r.id = id) =>
                    /\ \E n \in startups' : n.id = id
                    /\ \A n \in startups' : n.id = id => n.status = s
               /\ (\A r \in startups : r.id # id) => startups' = startups
               /\ users' = users /\ startup_members' = startup_members
       /\ Finished(p, "update_join_request") =>
            LET id == ret'[p].args[1]
                s == ret'[p].args[2]
            IN /\ (\E r \in startup_members : r.id = id) =>
                    /\ \E n \in startup_members' : n.id = id
                    /\ \A n \in startup_members' : n.id = id => n.status = s
               /\ (\A r \in startup_members : r.id # id) =>
                    startup_members' = startup_members
               /\ users' = users /\ startups' = startups]_vars

\* C17 witness: a completed startup has been set back to pending
C17_Witness ==
  \E p \in Procs :
    /\ pc[p] = "done" /\ ret[p].op = "update_startup_status" /\ ret[p].how = "ok"
    /\ ret[p].args = <<1, "pending">>
    /\ \E r \in startups : r.id = 1 /\ r.status = "pending" /\ r.ended_at # None

\* the user_ids get_all_startup_members(startup_id) gives in the current state
RosterIds(startup_id) ==
  {r.user_id : r \in {m \in startup_members :
                        m.startup_id = startup_id /\ m.status = "accepted"}}

\* C18 (the claim as stated): when no write is committed between the two
\* statements of get_startup_members, its total is the length of what
\* get_all_startup_members gives for the startup, its page lists user_ids of
\* that list only, and a first page with room for the whole list has all of
\* them, the accepted members without a users row included.
C18_RosterAgree ==
  [][\A p \in Procs :
       (pc[p] = "members_page" /\ pc'[p] = "done" /\ ret'[p].how = "ok"
          /\ loc[p].seen = commits) =>
         LET startup_id == ret'[p].args[1]
             page == ret'[p].args[2]
             per_page == ret'[p].args[3]
             listed == {ret'[p].val[1][i].user_id : i \in 1..Len(ret'[p].val[1])}
         IN /\ ret'[p].val[2] = Cardinality(RosterIds(startup_id))
            /\ listed \subseteq RosterIds(startup_id)
            /\ (page = 1 /\ per_page >= Cardinality(RosterIds(startup_id))) =>
                 listed = RosterIds(startup_id)]_vars

\* C18, the state of the divergence: get_all_startup_members has returned a
\* member of a startup whose join with users is empty, so that
\* get_startup_members reports a total of 0 for it
C18_Divergence ==
  \E p \in Procs :
    /\ pc[p] = "done" /\ ret[p].op = "get_all_startup_members" /\ ret[p].how = "ok"
    /\ ret[p].val = <<1>>
    /\ JoinUsers(InRowidOrder(AcceptedMembers(ret[p].args[1]))) = <<>>

\* C19: from one state to the next the stored user_ids, the ids of the
\* startups and the (startup_id, user_id) pairs of the membership requests
\* stay or grow; the startup of an id keeps its owner_id and the membership
\* request of an id keeps its startup_id and its user_id.
C19_NothingDeleted ==
  [][/\ {u.user_id : u \in users} \subseteq {u.user_id : u \in users'}
     /\ {r.id : r \in startups} \subseteq {r.id : r \in startups'}
     /\ {<<m.startup_id, m.user_id>> : m \in startup_members}
          \subseteq {<<m.startup_id, m.user_id>> : m \in startup_members'}
     /\ \A r \in startups, n \in startups' :
          n.id = r.id => n.owner_id = r.owner_id
     /\ \A m \in startup_members, n \in startup_members' :
          n.id = m.id => (n.startup_id = m.startup_id /\ n.user_id = m.user_id)]_vars

\* C19 witness: save_user has replaced the row of user 1 (the row with id 1
\* is gone, the row with id 2 is there) and user_id 1 is still stored
C19_Witness ==
  /\ seq.users = 2
  /\ \A u \in users : u.id = 2 /\ u.user_id = 1
  /\ users # {}
  /\ \E p \in Procs : pc[p] = "done" /\ ret[p].op = "save_user" /\ ret[p].how = "ok"

====
